---- MODULE Spec2Model ----
(***************************************************************************)
(* Model of Boost/Fiber/benchmark.cpp: main sweeps the configurations and  *)
(* calls bench_mark; bench_mark launches thread_number worker threads      *)
(* which install a fiber scheduler, meet at the barrier b and then either  *)
(* create and join the fibers and close the channel blocker, or block in   *)
(* blocker.value_pop() until the channel is closed.                        *)
(***************************************************************************)
EXTENDS Integers, Sequences, FiniteSets, TLC

(* Bounds of the model. *)
\* value of 2*std::thread::hardware_concurrency() on the modelled machine
ThreadLimit == 3
\* the fiber_number list { 1, 3, 10, ... } is cut down to 1 .. MaxFibers
MaxFibers == 1
\* the iterations list { 1e4, 1e5, 1e6 } is cut down to 1 .. MaxIter
MaxIter == 2

(* enum class sched, by ordinal *)
round_robin == 0
shared_work == 1
work_stealing == 2

W == 0 .. (ThreadLimit - 1)
F == 0 .. (MaxFibers - 1)

VARIABLES
  pc,             \* control point of the main thread (main and bench_mark)
  ret,            \* the call site bench_mark returns to
  thread_number, fiber_number, iterations, scheduler, suspend,
  out,            \* what has been written to std::cout
  b,              \* boost::barrier b
  blocker,        \* boost::fibers::unbuffered_channel<int> blocker
  closers,        \* the workers that have called blocker.close()
  starting_point, \* clk::now() taken at line 69
  launched,       \* number of std::async calls made: size of threads so far
  liveI,          \* the index whose transform-lambda parameter i is alive
  getIdx,         \* position of the t.get() loop
  wpc,            \* control point of each worker thread's main context
  iRead,          \* the value each worker read through its reference to i
  installed,      \* scheduling algorithm installed in each worker thread
  joinIdx,        \* position of the f.join() loop of each worker
  asleep,         \* worker thread suspended inside its idle scheduler
  future,         \* shared state of the std::future of each worker
  installs,       \* number of install_fiber_scheduler calls of each worker
  popped,         \* how the value_pop of each worker ended
  fib             \* fib[w][j]: j-th fiber of the vector fibers of worker w

vars == << pc, ret, thread_number, fiber_number, iterations, scheduler,
           suspend, out, b, blocker, closers, starting_point, launched,
           liveI, getIdx, wpc, iRead, installed, joinIdx, asleep, future,
           installs, popped, fib >>

mainVars == << thread_number, fiber_number, iterations, scheduler >>
trialVars == << b, blocker, closers, starting_point, launched, liveI, getIdx,
                wpc, iRead, installed, joinIdx, asleep, future, installs,
                popped, fib >>
workerVars == << wpc, iRead, installed, joinIdx, asleep, future, installs,
                popped, fib >>

NoIndex == 0 - 1

(* Each thread starts with the default round_robin algorithm. *)
DefaultAlgo == [algo |-> round_robin, threads |-> 0, suspend |-> FALSE]

(* st, counter, loc: the state of the fiber; yields: the yield() calls it   *)
(* has made; onIdle: it has run on a thread blocked in value_pop.          *)
NoFiber == [st |-> "none", counter |-> 0, loc |-> 0, yields |-> 0,
            onIdle |-> FALSE]

NoBarrier == [size |-> 0, count |-> 0, generation |-> 0]

(* The trial-local objects when no trial is running. *)
NoWorkers ==
  [wpc |-> [w \in W |-> "none"],
   iRead |-> [w \in W |-> NoIndex],
   installed |-> [w \in W |-> DefaultAlgo],
   joinIdx |-> [w \in W |-> 0],
   asleep |-> [w \in W |-> FALSE],
   future |-> [w \in W |-> "none"],
   installs |-> [w \in W |-> 0],
   popped |-> [w \in W |-> "no"],
   fib |-> [w \in W |-> [j \in F |-> NoFiber]]]

NoTrial ==
  /\ b = NoBarrier
  /\ blocker = "none"
  /\ closers = {}
  /\ starting_point = "unset"
  /\ launched = 0
  /\ liveI = NoIndex
  /\ getIdx = 0
  /\ wpc = NoWorkers.wpc
  /\ iRead = NoWorkers.iRead
  /\ installed = NoWorkers.installed
  /\ joinIdx = NoWorkers.joinIdx
  /\ asleep = NoWorkers.asleep
  /\ future = NoWorkers.future
  /\ installs = NoWorkers.installs
  /\ popped = NoWorkers.popped
  /\ fib = NoWorkers.fib

Config == [thread_number |-> thread_number, fiber_number |-> fiber_number,
           iterations |-> iterations, scheduler |-> scheduler,
           suspend |-> suspend]

(* main: the start of the sweep *)
Init ==
  /\ pc = "loop"
  /\ ret = "none"
  /\ thread_number = 1
  /\ fiber_number = 1
  /\ iterations = 1
  /\ scheduler = round_robin
  /\ suspend = FALSE
  /\ out = << >>
  /\ NoTrial

(***************************************************************************)
(* main                                                                    *)
(***************************************************************************)

(* bench_mark(thread_number, fiber_number, iterations, scheduler, false) *)
MainCall1 ==
  /\ pc = "loop"
  /\ thread_number <= ThreadLimit
  /\ pc' = "header"
  /\ ret' = "after1"
  /\ suspend' = FALSE
  /\ UNCHANGED << mainVars, out, trialVars >>

(* A second call that is made for every scheduler *)
MainCall2Always ==
  /\ pc = "after1"
  /\ pc' = "header"
  /\ ret' = "after2"
  /\ suspend' = TRUE
  /\ UNCHANGED << mainVars, out, trialVars >>

(* if (scheduler == sched::work_stealing) bench_mark(..., true) *)
MainCall2 ==
  /\ pc = "after1"
  /\ scheduler = work_stealing
  /\ pc' = "header"
  /\ ret' = "after2"
  /\ suspend' = TRUE
  /\ UNCHANGED << mainVars, out, trialVars >>

(* A sweep whose iterations loop is not restarted for the next thread_number *)
NextTupleNoReset(t, f, n, s) ==
  IF s < work_stealing THEN << t, f, n, s + 1 >>
  ELSE IF n < MaxIter THEN << t, f, n + 1, round_robin >>
  ELSE IF f < MaxFibers THEN << t, f + 1, 1, round_robin >>
  ELSE << t + 1, 1, n, round_robin >>

(* The loop variables after one more step of the four nested for loops. *)
NextTuple(t, f, n, s) ==
  IF s < work_stealing THEN << t, f, n, s + 1 >>
  ELSE IF n < MaxIter THEN << t, f, n + 1, round_robin >>
  ELSE IF f < MaxFibers THEN << t, f + 1, 1, round_robin >>
  ELSE << t + 1, 1, 1, round_robin >>

MainNextIter ==
  /\ \/ pc = "after1" /\ scheduler # work_stealing
     \/ pc = "after2"
  /\ LET nx == NextTuple(thread_number, fiber_number, iterations, scheduler)
     IN /\ thread_number' = nx[1]
        /\ fiber_number' = nx[2]
        /\ iterations' = nx[3]
        /\ scheduler' = nx[4]
  /\ pc' = "loop"
  /\ UNCHANGED << ret, suspend, out, trialVars >>

MainExit ==
  /\ pc = "loop"
  /\ thread_number > ThreadLimit
  /\ pc' = "exit"
  /\ UNCHANGED << ret, mainVars, suspend, out, trialVars >>

(***************************************************************************)
(* bench_mark, the main thread                                             *)
(***************************************************************************)

(* std::cout << "threads: " ... << std::flush *)
PrintHeader ==
  /\ pc = "header"
  /\ out' = Append(out, [line |-> "header", cfg |-> Config])
  /\ pc' = "construct"
  /\ UNCHANGED << ret, mainVars, suspend, trialVars >>

(* A barrier that is one short of the number of workers. *)
BarrierSizeShort(n) == IF n > 1 THEN n - 1 ELSE n

(* The count the barrier is constructed with. *)
BarrierSize(n) == n

(* boost::barrier b { thread_number }; unbuffered_channel<int> blocker.    *)
(* The constructor of boost::barrier throws when its count is 0; nothing   *)
(* catches that, so the process terminates.                                *)
Construct ==
  /\ pc = "construct"
  /\ IF BarrierSize(thread_number) = 0
       THEN /\ pc' = "terminated"
            /\ UNCHANGED << b, blocker >>
       ELSE /\ b' = [size |-> BarrierSize(thread_number),
                     count |-> BarrierSize(thread_number), generation |-> 0]
            /\ blocker' = "open"
            /\ pc' = "clock"
  /\ UNCHANGED << ret, mainVars, suspend, out, closers, starting_point,
                  launched, liveI, getIdx, workerVars >>

(* A bench_mark that goes on to launch the workers without taking the      *)
(* starting point.                                                         *)
StartClockMissing ==
  /\ pc = "clock"
  /\ pc' = "launch"
  /\ UNCHANGED << ret, mainVars, suspend, out, trialVars >>

(* auto starting_point = clk::now() *)
StartClock ==
  /\ pc = "clock"
  /\ starting_point' = "set"
  /\ pc' = "launch"
  /\ UNCHANGED << ret, mainVars, suspend, out, b, blocker, closers, launched,
                  liveI, getIdx, workerVars >>

(* One call of the transform lambda with i = launched: std::async starts   *)
(* the worker; the parameter i of the call before is gone.                 *)
Launch ==
  /\ pc = "launch"
  /\ launched < thread_number
  /\ wpc' = [wpc EXCEPT ![launched] = "install"]
  /\ future' = [future EXCEPT ![launched] = "pending"]
  /\ liveI' = launched
  /\ launched' = launched + 1
  /\ UNCHANGED << pc, ret, mainVars, suspend, out, b, blocker, closers,
                  starting_point, getIdx, iRead, installed, joinIdx, asleep,
                  fib,
                  installs, popped >>

(* The last call of the transform lambda returns; threads is complete. *)
LaunchDone ==
  /\ pc = "launch"
  /\ launched = thread_number
  /\ liveI' = NoIndex
  /\ pc' = "get"
  /\ UNCHANGED << ret, mainVars, suspend, out, b, blocker, closers,
                  starting_point, launched, getIdx, workerVars >>

(* A loop over the futures that does not wait for the workers. *)
GetNoWait ==
  /\ pc = "get"
  /\ getIdx < thread_number
  /\ getIdx' = getIdx + 1
  /\ UNCHANGED << pc, ret, mainVars, suspend, out, b, blocker, closers,
                  starting_point, launched, liveI, workerVars >>

(* t.get(): waits for the worker and rethrows what it stored; nothing      *)
(* catches it, so the process terminates.                                  *)
Get ==
  /\ pc = "get"
  /\ getIdx < thread_number
  /\ future[getIdx] \in {"ready", "exception"}
  /\ IF future[getIdx] = "exception"
       THEN pc' = "terminated" /\ getIdx' = getIdx
       ELSE pc' = pc /\ getIdx' = getIdx + 1
  /\ UNCHANGED << ret, mainVars, suspend, out, b, blocker, closers,
                  starting_point, launched, liveI, workerVars >>

(* std::chrono::duration<double> duration = clk::now() - starting_point *)
StopClock ==
  /\ pc = "get"
  /\ getIdx = thread_number
  /\ pc' = "print"
  /\ UNCHANGED << ret, mainVars, suspend, out, trialVars >>

(* A result that is divided by iterations only. *)
PerSwitchOneDivisor(n, f) == IF n = 0 THEN "inf or nan" ELSE "finite"

(* duration.count()/iterations/fiber_number*1e9: a division of doubles,    *)
(* which does not trap; a zero divisor gives an infinity or a NaN.         *)
PerSwitch(n, f) == IF n = 0 \/ f = 0 THEN "inf or nan" ELSE "finite"

(* The result line; return.  The locals threads, blocker and b are         *)
(* destroyed.                                                              *)
PrintResult ==
  /\ pc = "print"
  /\ out' = Append(out, [line |-> "result", cfg |-> Config,
                         per_switch |-> PerSwitch(iterations, fiber_number)])
  /\ pc' = ret
  /\ ret' = "none"
  /\ b' = NoBarrier
  /\ blocker' = "none"
  /\ closers' = {}
  /\ starting_point' = "unset"
  /\ launched' = 0
  /\ liveI' = NoIndex
  /\ getIdx' = 0
  /\ wpc' = NoWorkers.wpc
  /\ iRead' = NoWorkers.iRead
  /\ installed' = NoWorkers.installed
  /\ joinIdx' = NoWorkers.joinIdx
  /\ asleep' = NoWorkers.asleep
  /\ future' = NoWorkers.future
  /\ installs' = NoWorkers.installs
  /\ popped' = NoWorkers.popped
  /\ fib' = NoWorkers.fib
  /\ UNCHANGED << mainVars, suspend >>

(***************************************************************************)
(* The worker threads: the lambda handed to std::async                     *)
(***************************************************************************)

(* An installer whose second test is an else: all but shared_work steal *)
install_else_stealing(cur, sch, n, sus) ==
  IF sch = shared_work
    THEN [algo |-> shared_work, threads |-> 0, suspend |-> FALSE]
    ELSE [algo |-> work_stealing, threads |-> n, suspend |-> sus]

(* An installer that does not pass suspend on to work_stealing *)
install_without_suspend(cur, sch, n, sus) ==
  IF sch = shared_work
    THEN [algo |-> shared_work, threads |-> 0, suspend |-> FALSE]
  ELSE IF sch = work_stealing
    THEN [algo |-> work_stealing, threads |-> n, suspend |-> FALSE]
  ELSE cur

(* install_fiber_scheduler: the algorithm of the calling thread afterwards *)
install_fiber_scheduler(cur, sch, n, sus) ==
  IF sch = shared_work
    THEN [algo |-> shared_work, threads |-> 0, suspend |-> FALSE]
  ELSE IF sch = work_stealing
    THEN [algo |-> work_stealing, threads |-> n, suspend |-> sus]
  ELSE cur

Install(w) ==
  /\ wpc[w] = "install"
  /\ installed' = [installed EXCEPT ![w] =
       install_fiber_scheduler(installed[w], scheduler, thread_number,
                               suspend)]
  /\ installs' = [installs EXCEPT ![w] = installs[w] + 1]
  /\ wpc' = [wpc EXCEPT ![w] = "barrier"]
  /\ UNCHANGED << pc, ret, mainVars, suspend, out, b, blocker, closers,
                  starting_point, launched, liveI, getIdx, iRead, joinIdx,
                  asleep, future, fib,
                  popped >>

(* b.count_down_and_wait(): the last arrival starts the next generation    *)
(* and goes on, the others wait for it.                                    *)
CountDownAndWait(w) ==
  /\ wpc[w] = "barrier"
  /\ IF b.count = 1
       THEN /\ b' = [b EXCEPT !.count = b.size,
                              !.generation = b.generation + 1]
            /\ wpc' = [wpc EXCEPT ![w] = "branch"]
       ELSE /\ b' = [b EXCEPT !.count = b.count - 1]
            /\ wpc' = [wpc EXCEPT ![w] = "bwait"]
  /\ UNCHANGED << pc, ret, mainVars, suspend, out, blocker, closers,
                  starting_point, launched, liveI, getIdx, iRead, installed,
                  joinIdx, asleep, future, fib,
                  installs, popped >>

BarrierRelease(w) ==
  /\ wpc[w] = "bwait"
  /\ b.generation # 0
  /\ wpc' = [wpc EXCEPT ![w] = "branch"]
  /\ UNCHANGED << pc, ret, mainVars, suspend, out, b, blocker, closers,
                  starting_point, launched, liveI, getIdx, iRead, installed,
                  joinIdx, asleep, future, fib,
                  installs, popped >>

(* The values the worker launched with index w can read through its        *)
(* reference to i: the worker lambda captures the parameter i of the       *)
(* transform lambda by reference ([&]), and that parameter dies when the   *)
(* transform lambda returns.  While it is alive the value is w; afterwards *)
(* the read is of a dead object and yields any value.  The code only       *)
(* compares the value with 0, so one nonzero value stands for all of them. *)
NonZero(w) == IF w = 0 THEN thread_number ELSE w

ReadI(w) ==
  IF liveI = w THEN {w} ELSE {0, NonZero(w)}

(* Where the worker goes after if (i == 0) *)
BranchTarget(i) ==
  IF i = 0
    THEN (IF fiber_number = 0 THEN "close" ELSE "spawn")
    ELSE "pop"

Branch(w) ==
  /\ wpc[w] = "branch"
  /\ \E i \in ReadI(w) :
       /\ iRead' = [iRead EXCEPT ![w] = i]
       /\ wpc' = [wpc EXCEPT ![w] = BranchTarget(i)]
  /\ UNCHANGED << pc, ret, mainVars, suspend, out, b, blocker, closers,
                  starting_point, launched, liveI, getIdx, installed, joinIdx,
                  asleep, future, fib,
                  installs, popped >>

Spawned(w) == Cardinality({j \in F : fib[w][j].st # "none"})

(* boost::fibers::fiber { starting_mode, bench }: with launch::post the    *)
(* new fiber is made ready in the scheduler of the creating thread and the *)
(* creator goes on.  ranges::to<std::vector> creates them one by one.      *)
Spawn(w) ==
  /\ wpc[w] = "spawn"
  /\ LET j == Spawned(w) IN
       /\ fib' = [fib EXCEPT ![w][j] =
                    [st |-> "new", counter |-> iterations, loc |-> w,
                     yields |-> 0, onIdle |-> FALSE]]
       /\ wpc' = [wpc EXCEPT ![w] =
                    IF j + 1 = fiber_number THEN "join" ELSE "spawn"]
  /\ UNCHANGED << pc, ret, mainVars, suspend, out, b, blocker, closers,
                  starting_point, launched, liveI, getIdx, iRead, installed,
                  joinIdx, asleep, future,
                  installs, popped >>

(* f.join() returns once the fiber has terminated. *)
Join(w) ==
  /\ wpc[w] = "join"
  /\ fib[w][joinIdx[w]].st = "done"
  /\ joinIdx' = [joinIdx EXCEPT ![w] = joinIdx[w] + 1]
  /\ wpc' = [wpc EXCEPT ![w] =
               IF joinIdx[w] + 1 = fiber_number THEN "close" ELSE "join"]
  /\ UNCHANGED << pc, ret, mainVars, suspend, out, b, blocker, closers,
                  starting_point, launched, liveI, getIdx, iRead, installed,
                  asleep, future, fib,
                  installs, popped >>

(* A worker lambda without the handler: the exception leaves it. *)
CatchNothing(exc) == exc

(* What leaves the worker lambda when the try block raised exc:            *)
(* catch(...) {} absorbs everything.                                       *)
CatchAll(exc) == "none"

FutureAfter(exc) == IF exc = "none" THEN "ready" ELSE "exception"

(* blocker.close(): the channel is closed and the contexts waiting in      *)
(* value_pop are made ready, which notifies their suspended threads.  The  *)
(* lambda then returns and the future becomes ready.                       *)
Close(w) ==
  /\ wpc[w] = "close"
  /\ blocker' = "closed"
  /\ closers' = closers \cup {w}
  /\ asleep' = [v \in W |-> IF wpc[v] = "popwait" THEN FALSE ELSE asleep[v]]
  /\ wpc' = [wpc EXCEPT ![w] = "done"]
  /\ future' = [future EXCEPT ![w] = "ready"]
  /\ UNCHANGED << pc, ret, mainVars, suspend, out, b, starting_point,
                  launched, liveI, getIdx, iRead, installed, joinIdx, fib,
                  installs, popped >>

(* A value_pop that suspends the caller whatever the state of the channel *)
PopAlwaysWaits(ch) == "suspend"

(* What value_pop does when called on channel ch, on which nothing is ever *)
(* pushed: it throws at once when the channel is closed, else it suspends  *)
(* the calling context.                                                    *)
PopOutcome(ch) == IF ch = "closed" THEN "throw" ELSE "suspend"

(* (void) blocker.value_pop() inside try { } catch(...) {} *)
ValuePop(w) ==
  /\ wpc[w] = "pop"
  /\ IF PopOutcome(blocker) = "throw"
       THEN /\ wpc' = [wpc EXCEPT ![w] = "done"]
            /\ future' = [future EXCEPT ![w] =
                            FutureAfter(CatchAll("fiber_error"))]
            /\ popped' = [popped EXCEPT ![w] = "at once"]
       ELSE /\ wpc' = [wpc EXCEPT ![w] = "popwait"]
            /\ future' = future
            /\ popped' = popped
  /\ UNCHANGED << pc, ret, mainVars, suspend, out, b, blocker, closers,
                  starting_point, launched, liveI, getIdx, iRead, installed,
                  joinIdx, asleep, fib,
                  installs >>

(* The suspended value_pop is resumed by close and throws. *)
PopWake(w) ==
  /\ wpc[w] = "popwait"
  /\ blocker = "closed"
  /\ ~asleep[w]
  /\ wpc' = [wpc EXCEPT ![w] = "done"]
  /\ future' = [future EXCEPT ![w] = FutureAfter(CatchAll("fiber_error"))]
  /\ popped' = [popped EXCEPT ![w] = "woken"]
  /\ UNCHANGED << pc, ret, mainVars, suspend, out, b, blocker, closers,
                  starting_point, launched, liveI, getIdx, iRead, installed,
                  joinIdx, asleep, fib,
                  installs >>

(***************************************************************************)
(* The fiber schedulers of the worker threads                              *)
(***************************************************************************)

Runnable(f) == f.st \in {"new", "yielded"}

(* Only a thread waiting in f.join() offers itself to the scheduler *)
InSchedulerJoinOnly(w) == wpc[w] = "join"

(* The main context of worker w is suspended in f.join() or value_pop(),   *)
(* so the scheduler of its thread runs other ready contexts.               *)
InScheduler(w) ==
  \/ wpc[w] = "popwait"
  \/ wpc[w] = "join"

LocalReady(w) == {x \in W \X F : Runnable(fib[x[1]][x[2]])
                                 /\ fib[x[1]][x[2]].loc = w}

(* May the scheduler of thread w pick a ready fiber held by thread v?      *)
(* round_robin: only its own; shared_work: the queue shared by the threads *)
(* that installed it; work_stealing: its own, or steal when it has none.   *)
CanPick(w, v) ==
  IF installed[w].algo = shared_work
    THEN v = w \/ installed[v].algo = shared_work
  ELSE IF installed[w].algo = work_stealing
    THEN v = w \/ (LocalReady(w) = {} /\ installed[v].algo = work_stealing)
  ELSE v = w

(* bench: one slice of a fiber, from where it was resumed to its next      *)
(* yield() or to its end:                                                  *)
(*   for (auto counter = iterations; counter != 0; --counter) yield();     *)
bench(f) ==
  LET c == IF f.st = "new" THEN f.counter ELSE f.counter - 1
  IN IF c # 0
       THEN [f EXCEPT !.st = "yielded", !.counter = c,
                      !.yields = f.yields + 1]
       ELSE [f EXCEPT !.st = "done", !.counter = c]

(* Where a fiber is after thread w ran it: a yielding fiber goes back to   *)
(* the ready queue of the algorithm of w (the local queue of w, or the     *)
(* shared queue, for which the holder is of no account); a terminated one  *)
(* is in no queue.                                                         *)
Requeue(f, w) ==
  IF f.st = "done" THEN [f EXCEPT !.loc = NoFiber.loc]
  ELSE IF installed[w].algo = shared_work THEN f
  ELSE [f EXCEPT !.loc = w]

(* Thread w runs the fiber j of worker v for one slice.  A terminating     *)
(* fiber makes the context joining it ready and notifies its thread.       *)
RunSlice(w, v, j) ==
  /\ InScheduler(w)
  /\ ~asleep[w]
  /\ Runnable(fib[v][j])
  /\ CanPick(w, fib[v][j].loc)
  /\ LET g == Requeue(bench(fib[v][j]), w) IN
       /\ fib' = [fib EXCEPT ![v][j] =
                    [g EXCEPT !.onIdle = g.onIdle \/ wpc[w] = "popwait"]]
       /\ asleep' = IF g.st = "done" /\ wpc[v] = "join" /\ joinIdx[v] = j
                      THEN [asleep EXCEPT ![v] = FALSE]
                      ELSE asleep
  /\ UNCHANGED << pc, ret, mainVars, suspend, out, b, blocker, closers,
                  starting_point, launched, liveI, getIdx, wpc, iRead,
                  installed, joinIdx, future,
                  installs, popped >>

(* work_stealing with suspend: a thread that finds nothing to run sleeps   *)
(* until it is notified (without suspend it spins, which changes nothing). *)
Suspend(w) ==
  /\ InScheduler(w)
  /\ installed[w].algo = work_stealing
  /\ installed[w].suspend
  /\ ~asleep[w]
  /\ LocalReady(w) = {}
  /\ IF wpc[w] = "join" THEN fib[w][joinIdx[w]].st # "done"
                        ELSE blocker # "closed"
  /\ asleep' = [asleep EXCEPT ![w] = TRUE]
  /\ UNCHANGED << pc, ret, mainVars, suspend, out, b, blocker, closers,
                  starting_point, launched, liveI, getIdx, wpc, iRead,
                  installed, joinIdx, future, fib,
                  installs, popped >>

Main == MainCall1 \/ MainCall2 \/ MainNextIter \/ MainExit

Driver == PrintHeader \/ Construct \/ StartClock \/ Launch \/ LaunchDone
          \/ Get \/ StopClock \/ PrintResult

Worker(w) == Install(w) \/ CountDownAndWait(w) \/ BarrierRelease(w)
             \/ Branch(w) \/ Spawn(w) \/ Join(w) \/ Close(w) \/ ValuePop(w)
             \/ PopWake(w) \/ Suspend(w)
             \/ \E v \in W, j \in F : RunSlice(w, v, j)

Next == Main \/ Driver \/ \E w \in W : Worker(w)

Spec == Init /\ [][Next]_vars

(* Every thread that can take a step eventually takes one. *)
FairSpec == Spec /\ WF_vars(Next)

(* bench_mark called on its own, with arguments the sweep of main passes   *)
(* and arguments it never passes: no thread, no fiber, no iteration, and a *)
(* sched value that is none of the three enumerators.                      *)
TrialInit ==
  /\ pc = "header"
  /\ ret = "caller"
  /\ thread_number \in 0 .. ThreadLimit
  /\ fiber_number \in 0 .. MaxFibers
  /\ iterations \in 0 .. MaxIter
  /\ scheduler \in round_robin .. (work_stealing + 1)
  /\ suspend \in BOOLEAN
  /\ out = << >>
  /\ NoTrial

TrialNext == Driver \/ \E w \in W : Worker(w)

TrialSpec == TrialInit /\ [][TrialNext]_vars

FairTrialSpec == TrialSpec /\ WF_vars(TrialNext)

(***************************************************************************)
(* Properties                                                              *)
(***************************************************************************)

Workers == 0 .. (thread_number - 1)

Returned == pc \in {"after1", "after2"}

(* The branch a worker took at if (i == 0) *)
TookCoordinator(w) == iRead[w] = 0
TookIdle(w) == iRead[w] # NoIndex /\ iRead[w] # 0

(* Worker w has created and joined every fiber of its vector fibers. *)
FleetJoined(w) ==
  /\ joinIdx[w] = fiber_number
  /\ \A j \in 0 .. (fiber_number - 1) : fib[w][j].st = "done"

FiberExists == \E w \in W, j \in F : fib[w][j].st # "none"

Arrived(w) == wpc[w] \notin {"none", "install", "barrier"}

(* C1: under fair scheduling every call of bench_mark returns to its       *)
(* caller: all fibers finish, all workers return, the t.get() loop ends    *)
(* and the result line of the trial is the last line written.              *)
C1_BenchMarkTerminates ==
  (pc = "header") ~>
     (Returned /\ Len(out) > 0 /\ out[Len(out)].line = "result")

(* C2: a worker that took the idle branch has returned from value_pop only *)
(* if a fleet exists and every worker that took the coordinator branch has *)
(* joined all the fibers of its fleet.                                     *)
C2_NoIdleExitBeforeFleetJoined ==
  \A w \in W :
    (TookIdle(w) /\ wpc[w] = "done") =>
       /\ \E v \in W : TookCoordinator(v)
       /\ \A v \in W : TookCoordinator(v) => FleetJoined(v)

(* C3: the channel is closed exactly by the close() of worker 0, at most   *)
(* once, stays closed afterwards, is closed only after the fleet of worker *)
(* 0 has been joined, and is closed when the trial ends.                   *)
C3_ClosedOnceByWorkerZero ==
  /\ closers \subseteq {0}
  /\ (blocker = "closed") <=> (closers # {})
  /\ closers # {} => FleetJoined(0)
  /\ (pc = "get" /\ getIdx = thread_number) => blocker = "closed"

(* C4: the barrier is sized to thread_number; a fiber exists only when     *)
(* every one of the thread_number workers has installed its scheduler and  *)
(* arrived at the barrier; the barrier is used for one generation only,    *)
(* every arrival is counted once, and once all workers have arrived no     *)
(* worker is left waiting: each waiter can go on.                          *)
C4_BarrierBeforeFibers ==
  /\ blocker # "none" => b.size = thread_number
  /\ FiberExists =>
       \A w \in Workers :
         /\ Arrived(w)
         /\ installed[w] = install_fiber_scheduler(DefaultAlgo, scheduler,
                                                   thread_number, suspend)
  /\ b.generation <= 1
  /\ b.generation = 0 =>
       /\ \A w \in W : wpc[w] \in {"none", "install", "barrier", "bwait"}
       /\ b.count = b.size - Cardinality({w \in W : wpc[w] = "bwait"})
  /\ (blocker # "none" /\ \A w \in Workers : Arrived(w)) =>
       /\ b.generation = 1
       /\ \A w \in Workers : wpc[w] = "bwait" => ENABLED BarrierRelease(w)

(* A fiber has been created in a trial with three workers. *)
C4_Witness ==
  /\ thread_number = 3
  /\ \E w \in W : fib[w][0].st = "new"
  /\ \E w \in W : wpc[w] = "bwait"

(* C5: the value a worker tests at if (i == 0) is the index it was         *)
(* launched with, so worker 0 and only worker 0 takes the coordinator      *)
(* branch and every other worker the idle branch.                          *)
C5_RoleIsLaunchIndex ==
  \A w \in W :
    iRead[w] # NoIndex =>
      /\ iRead[w] = w
      /\ TookCoordinator(w) <=> (w = 0)

(* C6: with thread_number = 1 no worker calls value_pop, the channel is    *)
(* closed when the worker has returned, and the trial cannot get stuck.    *)
C6_SingleThread ==
  thread_number = 1 =>
    /\ \A w \in W : wpc[w] \notin {"pop", "popwait"}
    /\ \A w \in W : wpc[w] = "done" => blocker = "closed"
    /\ pc # "terminated"
    /\ pc \in {"header", "construct", "clock", "launch", "get"}
         => ENABLED Next

(* C7: with work_stealing, with suspend false and with suspend true, a     *)
(* worker blocked in value_pop is eventually woken by close and returns,   *)
(* and the trial returns.                                                  *)
C7_WorkStealingIdleWoken ==
  /\ \A w \in W :
       (scheduler = work_stealing /\ wpc[w] = "popwait")
          ~> (wpc[w] # "popwait")
  /\ (scheduler = work_stealing /\ pc = "get") ~> Returned

(* C8: no future ever holds an exception, t.get() never rethrows, nothing  *)
(* but header and result lines is printed, and a worker that took the idle *)
(* branch and has ended (its value_pop threw) ended normally.              *)
C8_ChannelClosedAbsorbed ==
  /\ \A w \in W : future[w] # "exception"
  /\ pc # "terminated"
  /\ \A k \in 1 .. Len(out) : out[k].line \in {"header", "result"}
  /\ \A w \in W : (TookIdle(w) /\ wpc[w] = "done") => future[w] = "ready"

(* The value_pop of an idle worker has thrown and t.get() has returned     *)
(* for that worker.                                                        *)
C8_Witness ==
  \E w \in W :
    /\ TookIdle(w)
    /\ wpc[w] = "done"
    /\ future[w] = "ready"
    /\ pc = "get"
    /\ getIdx > w

(* Position of a configuration in the nested enumeration: thread_number    *)
(* outermost, then fiber_number, iterations, scheduler, and for            *)
(* work_stealing suspend false before suspend true.                        *)
Ordinal(c) ==
  (((c.thread_number - 1) * MaxFibers + (c.fiber_number - 1)) * MaxIter
     + (c.iterations - 1)) * 4
  + (IF c.scheduler = work_stealing /\ c.suspend THEN 3 ELSE c.scheduler)

SweepSize == ThreadLimit * MaxFibers * MaxIter * (2 + 1 * 2)

C10_TrialsSequential ==
  /\ pc \in {"loop", "after1", "after2", "exit", "header", "construct"}
       => NoTrial
  /\ pc = "clock" =>
       /\ b = [size |-> thread_number, count |-> thread_number,
               generation |-> 0]
       /\ blocker = "open"
       /\ closers = {}
       /\ \A w \in W : wpc[w] = "none"
  /\ pc # "terminated"
  /\ pc # "exit" => ENABLED Next

(* The arguments break a precondition of the spec. *)
InvalidScheduler ==
  scheduler \notin {round_robin, shared_work, work_stealing}

NoWorkerLaunched == launched = 0 /\ \A w \in W : wpc[w] = "none"

NoResultLine == \A k \in 1 .. Len(out) : out[k].line # "result"

(* C11: called with thread_number < 1 or with an invalid scheduler kind,   *)
(* bench_mark launches no worker, prints no result line and never returns  *)
(* to its caller as if the trial had succeeded.                            *)
C11_FailFast ==
  (thread_number < 1 \/ InvalidScheduler) =>
    /\ NoWorkerLaunched
    /\ NoResultLine
    /\ pc # "caller"

(* C11 as amended: with thread_number = 0 bench_mark prints the header and *)
(* is then left by the exception of the barrier's constructor, before any  *)
(* worker is launched and without a result line; an invalid scheduler kind *)
(* is not detected: install_fiber_scheduler installs nothing, the workers  *)
(* run with the default algorithm and a trial that returns has printed a   *)
(* result line.                                                            *)
C11_FailFastOnlyWithoutThreads ==
  /\ thread_number = 0 =>
       /\ NoWorkerLaunched
       /\ NoResultLine
       /\ pc \in {"header", "construct", "terminated"}
       /\ pc = "terminated" => (Len(out) = 1 /\ out[1].line = "header")
  /\ (thread_number >= 1 /\ InvalidScheduler) =>
       /\ pc # "terminated"
       /\ \A w \in W : installed[w] = DefaultAlgo
       /\ pc = "caller" => (Len(out) = 2 /\ out[2].line = "result")

(* bench_mark(0, ...) has been ended by the barrier's constructor. *)
C11_Witness ==
  /\ thread_number = 0
  /\ pc = "terminated"
  /\ Len(out) = 1

(* C12: the division duration / iterations / fiber_number is only reached  *)
(* and evaluated with iterations >= 1 and fiber_number >= 1, and its       *)
(* result is finite.                                                       *)
C12_DivisorsEnforced ==
  /\ pc = "print" => (iterations >= 1 /\ fiber_number >= 1)
  /\ \A k \in 1 .. Len(out) :
       out[k].line = "result" =>
         /\ out[k].cfg.iterations >= 1
         /\ out[k].cfg.fiber_number >= 1
         /\ out[k].per_switch = "finite"

(* C12 as amended: bench_mark enforces nothing about fiber_number and      *)
(* iterations; the division is evaluated in floating point with the        *)
(* arguments as given, never traps, and its result is finite exactly when  *)
(* both are nonzero.                                                       *)
C12_DivisionAsGiven ==
  /\ \A k \in 1 .. Len(out) :
       out[k].line = "result" =>
         /\ out[k].cfg = Config
         /\ (out[k].per_switch = "finite")
              <=> (out[k].cfg.iterations # 0 /\ out[k].cfg.fiber_number # 0)
  /\ pc = "terminated" => thread_number = 0
  /\ pc = "caller" => (Len(out) = 2 /\ out[2].line = "result")

(* A trial without fibers has printed its result line. *)
C12_Witness ==
  /\ pc = "caller"
  /\ fiber_number = 0
  /\ iterations >= 1
  /\ out[2].per_switch = "inf or nan"

(* C13: a worker that calls value_pop when the channel is already closed   *)
(* does not block: its next step is the throw, which is caught, and the    *)
(* worker ends normally.                                                   *)
C13_PopAfterCloseThrows ==
  [][\A w \in W :
       (wpc[w] = "pop" /\ blocker = "closed" /\ wpc'[w] # "pop") =>
          /\ wpc'[w] = "done"
          /\ future'[w] = "ready"
          /\ popped'[w] = "at once"]_vars

(* A worker called value_pop after close and has returned. *)
C13_Witness ==
  \E w \in W :
    /\ popped[w] = "at once"
    /\ wpc[w] = "done"
    /\ closers # {}
    /\ w \notin closers

HeaderIsLast ==
  /\ Len(out) > 0
  /\ out[Len(out)] = [line |-> "header", cfg |-> Config]

AllWorkersEnded ==
  \A w \in Workers : wpc[w] = "done" /\ future[w] = "ready"

(* The position of the main thread inside bench_mark, by line. *)
TrialOrder ==
  /\ pc = "construct" =>
       (HeaderIsLast /\ blocker = "none" /\ b = NoBarrier
          /\ starting_point = "unset" /\ NoWorkerLaunched)
  /\ pc = "clock" =>
       (HeaderIsLast /\ blocker = "open" /\ b.size = thread_number
          /\ starting_point = "unset" /\ NoWorkerLaunched)
  /\ pc = "launch" =>
       (HeaderIsLast /\ blocker # "none" /\ starting_point = "set")
  /\ (\E w \in W : wpc[w] # "none") =>
       (HeaderIsLast /\ blocker # "none" /\ starting_point = "set"
          /\ pc \in {"launch", "get", "print"})
  /\ pc = "get" => (HeaderIsLast /\ launched = thread_number)
  /\ pc = "print" =>
       (HeaderIsLast /\ AllWorkersEnded /\ launched = thread_number
          /\ starting_point = "set")

(* C14: in a trial the header is printed first, then the barrier and the   *)
(* channel are constructed, then the clock is started, then the workers    *)
(* are launched; the clock is stopped only when all workers have ended,    *)
(* and the result line is printed after that.                              *)
C14_TrialOrder ==
  /\ []TrialOrder
  /\ [][Len(out') > Len(out) /\ out'[Len(out')].line = "result"
          => (pc = "print" /\ AllWorkersEnded)]_vars
  /\ [][pc' = "print" /\ pc # "print"
          => (pc = "get" /\ AllWorkersEnded)]_vars

(* The clock is stopped in a trial with three workers, all ended. *)
C14_Witness ==
  /\ pc = "print"
  /\ thread_number = 3
  /\ AllWorkersEnded

(* The clock is running: between line 69 and line 109. *)
Measuring == starting_point = "set" /\ pc # "print"

RECURSIVE SumYields(_)
SumYields(S) ==
  IF S = {} THEN 0
  ELSE LET x == CHOOSE y \in S : TRUE
       IN fib[x[1]][x[2]].yields + SumYields(S \ {x})

(* The yield() calls made in the trial so far. *)
TotalYields == SumYields(W \X F)

(* The fibers a step changes. *)
Touched == {x \in W \X F : fib'[x[1]][x[2]] # fib[x[1]][x[2]]}

FleetCounts ==
  /\ \A w \in W :
       /\ Spawned(w) > 0 => TookCoordinator(w)
       /\ Spawned(w) <= fiber_number
       /\ (TookCoordinator(w) /\ wpc[w] \in {"join", "close", "done"})
            => Spawned(w) = fiber_number
  /\ \A w \in W, j \in F :
       LET f == fib[w][j] IN
         /\ f.st = "new" => (f.yields = 0 /\ f.counter = iterations)
         /\ f.st = "yielded" =>
              (f.counter > 0 /\ f.yields + f.counter = iterations + 1)
         /\ f.st = "done" => (f.counter = 0 /\ f.yields = iterations)
  /\ pc = "print" => TotalYields = fiber_number * iterations

(* C16: only the coordinator creates fibers, exactly fiber_number of them; *)
(* a fiber yields once per value of its countdown, which it decrements     *)
(* once per yield, and ends with the countdown at zero after iterations    *)
(* yields; a completed trial has made fiber_number x iterations yields;    *)
(* a step of one fiber changes no other fiber.                             *)
C16_FleetYields ==
  /\ []FleetCounts
  /\ [][pc # "print" => Cardinality(Touched) <= 1]_vars

(* What a thread of the trial has installed once it has made its call. *)
InstalledAsAsked(a) ==
  /\ scheduler = round_robin => a = DefaultAlgo
  /\ scheduler = shared_work => a.algo = shared_work
  /\ scheduler = work_stealing =>
       a = [algo |-> work_stealing, threads |-> thread_number,
            suspend |-> suspend]

(* A fiber was created by, is held by or has been run to its end by w. *)
FiberOnThread(w) ==
  \/ Spawned(w) > 0
  \/ \E x \in W \X F : Runnable(fib[x[1]][x[2]]) /\ fib[x[1]][x[2]].loc = w

(* C17: a worker calls install_fiber_scheduler exactly once, before it     *)
(* arrives at the barrier and before any fiber is on its thread; after the *)
(* call nothing is installed for round_robin, shared_work is installed for *)
(* shared_work, and work_stealing with thread_number and suspend for       *)
(* work_stealing.                                                          *)
C17_InstallOnceBeforeBarrier ==
  \A w \in W :
    /\ installs[w] <= 1
    /\ wpc[w] \in {"none", "install"} =>
         (installs[w] = 0 /\ installed[w] = DefaultAlgo)
    /\ wpc[w] \notin {"none", "install"} =>
         (installs[w] = 1 /\ InstalledAsAsked(installed[w]))
    /\ wpc[w] \in {"none", "install", "barrier"} =>
         b.count + Cardinality({v \in W : Arrived(v)}) = b.size
            \/ b.generation = 1
    /\ FiberOnThread(w) => (installs[w] = 1 /\ Arrived(w))

(* A worker of a work_stealing trial with suspend waits at the barrier     *)
(* with its scheduler installed.                                           *)
C17_Witness ==
  /\ scheduler = work_stealing
  /\ suspend
  /\ \E w \in W :
       /\ wpc[w] = "bwait"
       /\ installs[w] = 1
       /\ installed[w].suspend

(* C18: with fiber_number = 0 and at least one thread no fiber is ever     *)
(* created, the coordinator goes from the barrier straight to close()      *)
(* without waiting in a join, worker 0 is that coordinator, and the trial  *)
(* never gets stuck before it has returned: the idle workers leave and the *)
(* result line is printed.                                                 *)
C18_EmptyFleet ==
  (fiber_number = 0 /\ thread_number >= 1) =>
    /\ ~FiberExists
    /\ \A w \in W : wpc[w] \notin {"spawn", "join"}
    /\ \A w \in W : TookCoordinator(w) => wpc[w] \in {"close", "done"}
    /\ iRead[0] # NoIndex => TookCoordinator(0)
    /\ pc # "terminated"
    /\ pc # "caller" => ENABLED TrialNext
    /\ pc = "caller" => (Len(out) = 2 /\ out[2].line = "result")

(* The positions in out of the headers of the trials of one tuple. *)
HeadersOf(t, f, n, sch) ==
  {k \in 1 .. Len(out) :
     /\ out[k].line = "header"
     /\ out[k].cfg.thread_number = t
     /\ out[k].cfg.fiber_number = f
     /\ out[k].cfg.iterations = n
     /\ out[k].cfg.scheduler = sch}

(* C19: round_robin and shared_work trials are run with suspend false      *)
(* only, once per tuple; a work_stealing tuple is run with suspend false   *)
(* and right after it with suspend true, and not again; when main ends     *)
(* every tuple has had its one or its two trials.                          *)
C19_SuspendOnlyForStealing ==
  /\ \A k \in 1 .. Len(out) :
       LET c == out[k].cfg IN
         out[k].line = "header" =>
           /\ c.scheduler \in {round_robin, shared_work} => ~c.suspend
           /\ (c.scheduler = work_stealing /\ c.suspend) =>
                /\ k >= 3
                /\ out[k - 2] =
                     [line |-> "header", cfg |-> [c EXCEPT !.suspend = FALSE]]
           /\ (c.scheduler = work_stealing /\ ~c.suspend
                 /\ k + 2 <= Len(out)) =>
                out[k + 2] =
                  [line |-> "header", cfg |-> [c EXCEPT !.suspend = TRUE]]
           /\ \A l \in 1 .. Len(out) : (l # k => out[l] # out[k])
  /\ \A t \in 1 .. ThreadLimit, f \in 1 .. MaxFibers, n \in 1 .. MaxIter,
        sch \in {round_robin, shared_work, work_stealing} :
       /\ Cardinality(HeadersOf(t, f, n, sch))
            <= (IF sch = work_stealing THEN 2 ELSE 1)
       /\ pc = "exit" =>
            Cardinality(HeadersOf(t, f, n, sch))
              = (IF sch = work_stealing THEN 2 ELSE 1)

(* The second trial of a work_stealing tuple has returned. *)
C19_Witness ==
  /\ pc = "after2"
  /\ Len(out) >= 4
  /\ out[Len(out) - 1].cfg.suspend
  /\ ~out[Len(out) - 3].cfg.suspend
  /\ out[Len(out) - 3].cfg.scheduler = work_stealing

(* Worker w is suspended in value_pop() on the open channel, awake. *)
IdleOnOpenChannel(w) ==
  /\ wpc[w] = "popwait"
  /\ blocker = "open"
  /\ ~asleep[w]

(* The algorithm of thread w shares or steals the ready fiber f. *)
Offered(w, f) ==
  /\ Runnable(f)
  /\ \/ /\ installed[w].algo = shared_work
        /\ installed[f.loc].algo = shared_work
     \/ /\ installed[w].algo = work_stealing
        /\ installed[f.loc].algo = work_stealing
        /\ LocalReady(w) = {}
     \/ f.loc = w

====
